---- MODULE Spec2Model ----
(***************************************************************************)
(* Model of password.py: the character classes (CharClass and its four     *)
(* subclasses), the registry ClassMgr, the module-level table char_classes,*)
(* the argument parser and main.                                           *)
(*                                                                         *)
(* Strings are sequences of character codes (ASCII), so that concatenation *)
(* order, length and membership of a character are all observable.         *)
(***************************************************************************)
EXTENDS Integers, Sequences, FiniteSets, TLC

\* Bounds of the model.
MaxInst == 8    \* CharClass instances on the heap (4 module-level + 4 of one default())
MaxReg  == 2    \* length up to which a client keeps calling register
MaxArgs == 4    \* command-line tokens given to main

VARIABLES
    inst,   \* heap of CharClass instances: inst[i] = [cls |-> key, state |-> _state]
    mgr,    \* ClassMgr._char_classes of the registry the client holds: instance ids
    argv,   \* sys.argv[1:], the command-line tokens
    last    \* the most recent call and what it returned

vars == <<inst, mgr, argv, last>>

----------------------------------------------------------------------------
\* string module constants, as sequences of character codes

ascii_lowercase == [i \in 1..26 |-> 96 + i]
ascii_uppercase == [i \in 1..26 |-> 64 + i]
digits == [i \in 1..10 |-> 47 + i]
punctuation ==
    [i \in 1..15 |-> 32 + i] \o [i \in 1..7 |-> 57 + i]
        \o [i \in 1..6 |-> 90 + i] \o [i \in 1..4 |-> 122 + i]

\* the keys of char_classes, in the dict's insertion order
Keys == <<"lower", "upper", "digit", "symbol">>
KeySet == {Keys[i] : i \in 1..Len(Keys)}

\* CharClass subclasses, by key
default_state(k) ==
    CASE k = "lower" -> TRUE
      [] k = "upper" -> TRUE
      [] k = "digit" -> TRUE
      [] k = "symbol" -> FALSE

get_chars(k) ==
    CASE k = "lower" -> ascii_lowercase
      [] k = "upper" -> ascii_uppercase
      [] k = "digit" -> digits
      [] k = "symbol" -> punctuation

name(k) ==
    CASE k = "lower" -> "Lowercase Alphabetic"
      [] k = "upper" -> "Uppercase Alphabetic"
      [] k = "digit" -> "Numerical Digits"
      [] k = "symbol" -> "Symbols"

\* CharClass.__init__: a new instance of class k, state = default_state()
NewCharClass(k) == [cls |-> k, state |-> default_state(k)]

\* the module-level table char_classes: key -> instance (ids 1..4, built at import)
KeyIndex(k) == CHOOSE i \in 1..Len(Keys) : Keys[i] = k
char_classes(k) == KeyIndex(k)

----------------------------------------------------------------------------
\* ClassMgr

\* ''.join(c.get_chars() for c in m if c.state), over registry list m and heap h
RECURSIVE JoinFrom(_, _, _)
JoinFrom(m, h, i) ==
    IF i > Len(m) THEN <<>>
    ELSE (IF h[m[i]].state THEN get_chars(h[m[i]].cls) ELSE <<>>)
             \o JoinFrom(m, h, i + 1)

get_all_chars_nofilter(m, h) ==
    JoinFrom(m, [j \in DOMAIN h |-> [h[j] EXCEPT !.state = TRUE]], 1)

get_all_chars_reversed(m, h) ==
    JoinFrom([j \in 1..Len(m) |-> m[Len(m) + 1 - j]], h, 1)

get_all_chars_by_default(m, h) ==
    JoinFrom(m, [j \in DOMAIN h |-> [h[j] EXCEPT !.state = default_state(h[j].cls)]], 1)

get_all_chars(m, h) == JoinFrom(m, h, 1)

\* ClassMgr.register: append
register_prepend(m, i) == <<i>> \o m

register(m, i) == Append(m, i)

----------------------------------------------------------------------------
\* Calls of a client of the module

\* mgr = ClassMgr()
NewMgr ==
    /\ mgr' = <<>>
    /\ last' = [op |-> "ClassMgr", ret |-> <<>>]
    /\ UNCHANGED <<inst, argv>>

\* mgr.register(inst i)
Register(i) ==
    /\ Len(mgr) < MaxReg
    /\ mgr' = register(mgr, i)
    /\ last' = [op |-> "register", ret |-> <<>>]
    /\ UNCHANGED <<inst, argv>>

\* mgr = ClassMgr.default(): four fresh instances, registered in order
DefaultReusesModuleInstances ==
    /\ Len(inst) + Len(Keys) <= MaxInst
    /\ inst' = inst \o [j \in 1..Len(Keys) |-> NewCharClass(Keys[j])]
    /\ mgr' = [j \in 1..Len(Keys) |-> char_classes(Keys[j])]
    /\ last' = [op |-> "default", ret |-> <<>>]
    /\ UNCHANGED argv

Default ==
    /\ Len(inst) + Len(Keys) <= MaxInst
    /\ LET fresh == [j \in 1..Len(Keys) |-> Len(inst) + j]
           heap == inst \o [j \in 1..Len(Keys) |-> NewCharClass(Keys[j])]
       IN /\ inst' = heap
          /\ mgr' = register(register(register(register(<<>>,
                        fresh[1]), fresh[2]), fresh[3]), fresh[4])
    /\ last' = [op |-> "default", ret |-> <<>>]
    /\ UNCHANGED argv

\* inst[i].state = b  (the property setter)
SetStateClassWide(i, b) ==
    /\ inst' = [j \in DOMAIN inst |->
                  IF inst[j].cls = inst[i].cls THEN [inst[j] EXCEPT !.state = b]
                  ELSE inst[j]]
    /\ last' = [op |-> "state.setter", ret |-> <<>>]
    /\ UNCHANGED <<mgr, argv>>

SetState(i, b) ==
    /\ inst' = [inst EXCEPT ![i].state = b]
    /\ last' = [op |-> "state.setter", ret |-> <<>>]
    /\ UNCHANGED <<mgr, argv>>

\* mgr.get_all_chars()
GetAllCharsConsuming ==
    /\ last' = [op |-> "get_all_chars", ret |-> get_all_chars(mgr, inst)]
    /\ mgr' = <<>>
    /\ UNCHANGED <<inst, argv>>

GetAllChars ==
    /\ last' = [op |-> "get_all_chars", ret |-> get_all_chars(mgr, inst)]
    /\ UNCHANGED <<inst, mgr, argv>>

----------------------------------------------------------------------------
\* The command line: parser() and main()

short_id(k) ==
    CASE k = "lower" -> "-l"
      [] k = "upper" -> "-u"
      [] k = "digit" -> "-d"
      [] k = "symbol" -> "-s"

long_id(k) ==
    CASE k = "lower" -> "--lower"
      [] k = "upper" -> "--upper"
      [] k = "digit" -> "--digit"
      [] k = "symbol" -> "--symbol"

\* parser(): one store_true argument per key of char_classes, in dict order,
\* its default the state of the module-level instance on heap h
parser_default_false(h) ==
    [j \in 1..Len(Keys) |->
        [short |-> short_id(Keys[j]), long |-> long_id(Keys[j]),
         dest |-> Keys[j], default |-> FALSE]]

parser(h) ==
    [j \in 1..Len(Keys) |->
        [short |-> short_id(Keys[j]), long |-> long_id(Keys[j]),
         dest |-> Keys[j], default |-> h[char_classes(Keys[j])].state]]

\* parse_args: the namespace, one entry per argument in the order they were
\* added; store_true gives True when the option occurs, else the default
parse_args(par, av) ==
    [j \in 1..Len(par) |->
        [dest |-> par[j].dest,
         value |-> IF \E t \in 1..Len(av) : av[t] \in {par[j].short, par[j].long}
                   THEN TRUE
                   ELSE par[j].default]]

\* for name, state in vars(args).items(): if state: mgr.register(char_classes[name])
RECURSIVE MainLoopStaleKey(_, _, _)
MainLoopStaleKey(args, i, m) ==
    IF i > Len(args) THEN m
    ELSE MainLoopStaleKey(args, i + 1,
            IF args[i].value
            THEN register(m, char_classes(args[Len(args)].dest))
            ELSE m)

RECURSIVE MainLoop(_, _, _)
MainLoop(args, i, m) ==
    IF i > Len(args) THEN m
    ELSE MainLoop(args, i + 1,
                  IF args[i].value THEN register(m, char_classes(args[i].dest))
                  ELSE m)

\* main(), run with command line a; the registry is local to main
MainWritesState(a) ==
    /\ argv' = a
    /\ LET args == parse_args(parser(inst), a)
           m == MainLoop(args, 1, <<>>)
           heap == [j \in DOMAIN inst |->
                      IF j <= Len(args) THEN [inst[j] EXCEPT !.state = args[j].value]
                      ELSE inst[j]]
       IN /\ inst' = heap
          /\ last' = [op |-> "main",
                      ret |-> [args |-> args, mgr |-> m,
                               stdout |-> get_all_chars(m, heap) \o <<10>>]]
    /\ UNCHANGED mgr

Main(a) ==
    /\ argv' = a
    /\ LET args == parse_args(parser(inst), a)
           m == MainLoop(args, 1, <<>>)
       IN last' = [op |-> "main",
                   ret |-> [args |-> args, mgr |-> m,
                            stdout |-> get_all_chars(m, inst) \o <<10>>]]
    /\ UNCHANGED <<inst, mgr>>

----------------------------------------------------------------------------
\* Specifications

\* the command line that passes exactly the options of the keys in F, long form
LongArgv(F) ==
    LET pick(S) == [j \in 1..Len(Keys) |-> IF Keys[j] \in S THEN <<long_id(Keys[j])>> ELSE <<>>]
    IN pick(F)[1] \o pick(F)[2] \o pick(F)[3] \o pick(F)[4]

Tokens == {short_id(k) : k \in KeySet} \cup {long_id(k) : k \in KeySet}
ArgvSeqs == UNION {[1..n -> Tokens] : n \in 0..MaxArgs}

\* after import: the four module-level instances, and a registry ClassMgr()
ModuleHeap == [j \in 1..Len(Keys) |-> NewCharClass(Keys[j])]

Init ==
    /\ inst = ModuleHeap
    /\ mgr = <<>>
    /\ argv = <<>>
    /\ last = [op |-> "import", ret |-> <<>>]

Next ==
    \/ NewMgr
    \/ Default
    \/ \E i \in 1..Len(inst) : Register(i)
    \/ \E i \in 1..Len(inst), b \in BOOLEAN : SetState(i, b)
    \/ GetAllChars

\* the classes and the registry used as a library: any sequence of calls
Spec == Init /\ [][Next]_vars

\* the calls that build a registry: ClassMgr(), ClassMgr.default(), register,
\* and main() with any combination of the four options
NextReg ==
    \/ NewMgr
    \/ Default
    \/ \E i \in 1..Len(inst) : Register(i)
    \/ \E F \in SUBSET KeySet : Main(LongArgv(F))

SpecReg == Init /\ [][NextReg]_vars

\* the module run as a script: main() on the command line given
InitMain ==
    /\ inst = ModuleHeap
    /\ mgr = <<>>
    /\ argv \in ArgvSeqs
    /\ last = [op |-> "import", ret |-> <<>>]

NextMain == last.op = "import" /\ Main(argv)

SpecMain == InitMain /\ [][NextMain]_vars

----------------------------------------------------------------------------
\* Vocabulary of the properties

\* total length of the characters of the enabled classes among m[1..j]
RECURSIVE EnabledLen(_, _, _)
EnabledLen(m, h, j) ==
    IF j = 0 THEN 0
    ELSE EnabledLen(m, h, j - 1)
            + (IF h[m[j]].state THEN Len(get_chars(h[m[j]].cls)) ELSE 0)

\* out is, position by position, the characters of the enabled classes of m
\* laid out in the order of m, and nothing else
IsConcatOfEnabled(out, m, h) ==
    /\ Len(out) = EnabledLen(m, h, Len(m))
    /\ \A j \in 1..Len(m) :
          h[m[j]].state =>
             \A q \in 1..Len(get_chars(h[m[j]].cls)) :
                out[EnabledLen(m, h, j - 1) + q] = get_chars(h[m[j]].cls)[q]

CharsOf(str) == {str[p] : p \in 1..Len(str)}
ModuleIds == {char_classes(k) : k \in KeySet}
NoDupKeys(m, h) ==
    \A a, b \in 1..Len(m) : a # b => h[m[a]].cls # h[m[b]].cls

\* the registry the client holds has the four classes in the order of default()
IsDefaultShape ==
    /\ Len(mgr) = Len(Keys)
    /\ \A j \in 1..Len(Keys) : inst[mgr[j]].cls = Keys[j]

\* option of key k occurs on the command line
Passed(k) == \E t \in 1..Len(argv) : argv[t] \in {short_id(k), long_id(k)}

Part(k, on) == IF on THEN get_chars(k) ELSE <<>>

----------------------------------------------------------------------------
\* C1: get_all_chars returns exactly the concatenation, in registration order,
\* of get_chars() of the registered classes whose state is true at the call,
\* and register only appends: the earlier entries keep their places.
C1_ConcatInRegistrationOrder ==
    /\ [](last.op = "get_all_chars" => IsConcatOfEnabled(last.ret, mgr, inst))
    /\ [][last'.op = "register" =>
             /\ Len(mgr') = Len(mgr) + 1
             /\ \A j \in 1..Len(mgr) : mgr'[j] = mgr[j]]_vars

C1_Witness ==
    /\ last.op = "get_all_chars"
    /\ Len(mgr) = 2
    /\ inst[mgr[1]].cls = "symbol" /\ inst[mgr[1]].state
    /\ inst[mgr[2]].cls = "lower" /\ inst[mgr[2]].state
    /\ last.ret = punctuation \o ascii_lowercase

\* C2: main prints the characters, in the order lower, upper, digit, symbol, of
\* exactly the classes whose option was passed or whose default is enabled.
C2_FlagOrDefaultPrinted ==
    last.op = "main" =>
        last.ret.stdout =
            Part("lower", Passed("lower") \/ default_state("lower"))
              \o Part("upper", Passed("upper") \/ default_state("upper"))
              \o Part("digit", Passed("digit") \/ default_state("digit"))
              \o Part("symbol", Passed("symbol") \/ default_state("symbol"))
              \o <<10>>

\* C3: ClassMgr.default() registers four fresh instances, of the classes lower,
\* upper, digit, symbol in that order, each with its default state; on the
\* untouched registry get_all_chars is lowercase+uppercase+digits, 62
\* characters, none of them punctuation.
C3_DefaultRegistry ==
    /\ [](last.op = "default" =>
            /\ IsDefaultShape
            /\ \A j \in 1..Len(mgr) :
                  /\ inst[mgr[j]].state = default_state(Keys[j])
                  /\ mgr[j] \notin ModuleIds
            /\ \A a, b \in 1..Len(mgr) : a # b => mgr[a] # mgr[b])
    /\ []((/\ last.op = "get_all_chars"
           /\ IsDefaultShape
           /\ \A j \in 1..Len(mgr) : inst[mgr[j]].state = default_state(Keys[j]))
          => /\ last.ret = ascii_lowercase \o ascii_uppercase \o digits
             /\ Len(last.ret) = 62
             /\ CharsOf(last.ret) \cap CharsOf(punctuation) = {})
    /\ [][last'.op = "default" =>
             \A j \in 1..Len(mgr') : mgr'[j] \notin 1..Len(inst)]_vars

C3_Witness ==
    /\ last.op = "get_all_chars"
    /\ IsDefaultShape
    /\ \A j \in 1..Len(mgr) : inst[mgr[j]].state = default_state(Keys[j])
    /\ \E k \in KeySet : inst[char_classes(k)].state # default_state(k)
    /\ Len(last.ret) = 62

\* C4: on the default registry, whatever subset of the four classes is
\* enabled, get_all_chars lays the enabled classes out in the order lower,
\* upper, digit, symbol; with only symbol enabled it is the punctuation set.
C4_FixedOrder ==
    (last.op = "get_all_chars" /\ IsDefaultShape) =>
        /\ last.ret = Part("lower", inst[mgr[1]].state)
                        \o Part("upper", inst[mgr[2]].state)
                        \o Part("digit", inst[mgr[3]].state)
                        \o Part("symbol", inst[mgr[4]].state)
        /\ \A p, q \in 1..Len(last.ret) :
              p < q =>
                 \E a, b \in 1..Len(Keys) :
                    /\ a <= b
                    /\ last.ret[p] \in CharsOf(get_chars(Keys[a]))
                    /\ last.ret[q] \in CharsOf(get_chars(Keys[b]))
        /\ (/\ inst[mgr[4]].state
            /\ \A j \in 1..3 : ~inst[mgr[j]].state)
           => (last.ret = punctuation /\ Len(last.ret) = Len(punctuation))

C4_Witness ==
    /\ last.op = "get_all_chars"
    /\ IsDefaultShape
    /\ inst[mgr[4]].state
    /\ \A j \in 1..3 : ~inst[mgr[j]].state
    /\ Len(last.ret) = 32

\* C5: get_all_chars returns the empty string whenever no registered class is
\* enabled, for an empty registry and for one whose classes are all disabled.
C5_EmptyWhenNoneEnabled ==
    (last.op = "get_all_chars" /\ \A j \in 1..Len(mgr) : ~inst[mgr[j]].state)
        => last.ret = <<>>

C5_Witness ==
    /\ last.op = "get_all_chars"
    /\ Len(mgr) = 2
    /\ \A j \in 1..Len(mgr) : ~inst[mgr[j]].state /\ default_state(inst[mgr[j]].cls)
    /\ last.ret = <<>>

\* C6: get_all_chars changes neither the registered list nor any state flag,
\* and a call right after another returns the same string.
C6_PureQuery ==
    [][last'.op = "get_all_chars" =>
          /\ mgr' = mgr
          /\ inst' = inst
          /\ (last.op = "get_all_chars" => last'.ret = last.ret)]_vars

C6_Witness ==
    /\ last.op = "get_all_chars"
    /\ Len(mgr) > 0
    /\ Len(last.ret) > 0

\* C7: a write of one instance's state changes that instance's state only:
\* every other instance, of the same class or not, keeps its state, and every
\* instance keeps its class.
C7_StatePerInstance ==
    [][last'.op = "state.setter" =>
          /\ Len(inst') = Len(inst)
          /\ mgr' = mgr
          /\ \A j \in 1..Len(inst) : inst'[j].cls = inst[j].cls
          /\ \E i \in 1..Len(inst) :
                \A j \in 1..Len(inst) : j # i => inst'[j].state = inst[j].state]_vars

C7_Witness ==
    /\ last.op = "state.setter"
    /\ IsDefaultShape
    /\ inst[mgr[4]].state
    /\ ~inst[char_classes("symbol")].state
    /\ mgr[4] # char_classes("symbol")

\* C8 (as claimed): after any sequence of register calls no key occurs twice
\* in the registry, neither in the client's nor in the one main builds.
C8_NeverDuplicateKeys ==
    /\ NoDupKeys(mgr, inst)
    /\ (last.op = "main" => NoDupKeys(last.ret.mgr, inst))

\* C8 (amended): the registry built by ClassMgr.default() and the registry
\* built by main, for any combination of the options, hold each key at most
\* once.
C8_BuiltRegistriesNoDuplicate ==
    /\ (last.op = "default" => NoDupKeys(mgr, inst))
    /\ (last.op = "main" => NoDupKeys(last.ret.mgr, inst))

C8_Witness ==
    /\ last.op = "main"
    /\ Len(last.ret.mgr) = Len(Keys)
    /\ ~NoDupKeys(mgr, inst)

\* C9: whatever options are passed, lower, upper and digit parse as true, are
\* registered by main, and all of a-z, A-Z and 0-9 are printed.
C9_DefaultOnStaysOn ==
    last.op = "main" =>
        \A k \in {"lower", "upper", "digit"} :
            /\ \E j \in 1..Len(last.ret.args) :
                  last.ret.args[j].dest = k /\ last.ret.args[j].value
            /\ \E j \in 1..Len(last.ret.mgr) : last.ret.mgr[j] = char_classes(k)
            /\ CharsOf(get_chars(k)) \subseteq CharsOf(last.ret.stdout)

C9_Witness ==
    /\ last.op = "main"
    /\ argv = <<"--symbol">>
    /\ Len(last.ret.mgr) = Len(Keys)

====
